---- MODULE Spec2Model ----
(***************************************************************************)
(* A model of plotdata.rev2.py, a Streamlit script.  Streamlit runs the    *)
(* whole script from top to bottom once when the session starts and once   *)
(* more after every user interaction; st.stop() ends the run at once.      *)
(* Between runs the only values kept are st.session_state, the widget      *)
(* values and the uploaded file.  One action of the model is one user      *)
(* interaction followed by the complete script run it causes.              *)
(*                                                                         *)
(* Timestamps are integers: timestamp = date * NumTimes + time of day.     *)
(* A CSV file is a record [readable, parses, cols, rows]; a row is a       *)
(* record [idx, datetime, vals] where idx is the pandas index label of the *)
(* row, datetime the parsed timestamp and vals the data fields.            *)
(* A field selection is modelled as the set of the chosen column names     *)
(* (the order in which the user picked them is not modelled).              *)
(***************************************************************************)
EXTENDS Integers, Sequences, FiniteSets, TLC

VARIABLES dflt,       \* the content of MYCOM01.csv on disk (never changes)
          uploaded,   \* the file uploader: <<>> or <<csv>>
          widgets,    \* the values of the sidebar widgets
          session,    \* st.session_state
          run,        \* what the latest script run did
          lastGood    \* history: result of the latest run whose filter was non-empty

vars == <<dflt, uploaded, widgets, session, run, lastGood>>

\* ------------------------------------------------------------------ bounds
NumTimes == 2      \* times of day a timestamp can have
MaxTs == 3         \* largest timestamp of a drawn table
MaxVal == 1        \* largest field value of a drawn table
MaxRows == 2       \* most rows of a drawn table

\* ----------------------------------------------------------------- helpers
Range(s) == {s[i] : i \in DOMAIN s}
SetMin(S) == CHOOSE x \in S : \A y \in S : x <= y
SetMax(S) == CHOOSE x \in S : \A y \in S : y <= x

\* datetime.date(), datetime.time() and datetime.combine(date, time)
DateOf(ts) == ts \div NumTimes
TimeOf(ts) == ts % NumTimes
combine(d, t) == d * NumTimes + t

\* ------------------------------------------------------------ the CSV files
R(i, ts, v) == [idx |-> i, datetime |-> ts, vals |-> v]

NoVals == [c \in {} |-> 0]

CsvMain ==
  [readable |-> TRUE, parses |-> TRUE, cols |-> <<"Date", "time", "A", "B", "C">>,
   rows |-> << R(0, 2, [A |-> 1, B |-> -1, C |-> 0]),
               R(1, 0, [A |-> 3, B |-> 0, C |-> 0]),
               R(2, 3, [A |-> -2, B |-> 1, C |-> 0]) >>]

CsvNoFields ==
  [readable |-> TRUE, parses |-> TRUE, cols |-> <<"Date", "time">>,
   rows |-> << R(0, 0, NoVals), R(1, 1, NoVals) >>]

CsvMissing ==
  [readable |-> FALSE, parses |-> FALSE, cols |-> <<>>, rows |-> <<>>]

CsvOther ==
  [readable |-> TRUE, parses |-> TRUE, cols |-> <<"datetime", "C", "D">>,
   rows |-> << R(0, 1, [C |-> 2, D |-> -1]),
               R(1, 1, [C |-> 0, D |-> 1]) >>]

CsvNoTime ==
  [readable |-> TRUE, parses |-> TRUE, cols |-> <<"Date", "A">>,
   rows |-> << R(0, 0, [A |-> 1]) >>]

CsvBadDates ==
  [readable |-> TRUE, parses |-> FALSE, cols |-> <<"Date", "time", "A">>,
   rows |-> << R(0, 0, [A |-> 1]) >>]

DefaultFiles == {CsvMain, CsvNoFields, CsvMissing}
UploadFiles == {CsvOther, CsvNoTime, CsvBadDates}

\* ------------------------------------------------------------ loading data
HasCol(csv, c) == c \in Range(csv.cols)

NoDf == [columns |-> <<>>, rows |-> <<>>]

\* pd.read_csv followed by the "datetime" column being added when absent
WithDatetime(csv) ==
  [columns |-> IF HasCol(csv, "datetime") THEN csv.cols ELSE Append(csv.cols, "datetime"),
   rows |-> csv.rows]

load_default_data(csv) ==
  IF csv.readable /\ HasCol(csv, "Date") /\ HasCol(csv, "time") /\ csv.parses
  THEN [ok |-> TRUE, error |-> "", df |-> WithDatetime(csv)]
  ELSE [ok |-> FALSE, error |-> "DefaultLoadFailed", df |-> NoDf]

LoadUploaded(csv) ==
  IF ~csv.readable THEN [ok |-> FALSE, error |-> "MalformedSource", df |-> NoDf]
  ELSE IF ~HasCol(csv, "datetime") /\ ~(HasCol(csv, "Date") /\ HasCol(csv, "time"))
  THEN [ok |-> FALSE, error |-> "MalformedSource", df |-> NoDf]
  ELSE IF ~csv.parses THEN [ok |-> FALSE, error |-> "MalformedSource", df |-> NoDf]
  ELSE [ok |-> TRUE, error |-> "", df |-> WithDatetime(csv)]

LoadData(up, dfl) ==
  IF up # <<>> THEN LoadUploaded(up[1]) ELSE load_default_data(dfl)

min_datetime(df) == SetMin({df.rows[i].datetime : i \in DOMAIN df.rows})
max_datetime(df) == SetMax({df.rows[i].datetime : i \in DOMAIN df.rows})

exclude_cols == {"Date", "time", "datetime"}
IsPlottable(c) == c \notin exclude_cols
available_columns(df) == SelectSeq(df.columns, IsPlottable)

DefaultSelection(avail) ==
  IF Len(avail) >= 2 THEN {avail[1], avail[2]} ELSE Range(avail)

\* ------------------------------------------------------------- the widgets
\* A widget keeps the value the user gave it for as long as the script
\* renders it with the same parameters (default value, bounds, options);
\* rendered with other parameters it is a new widget holding its default.
\* dateKey, stKey, etKey and optKey are the parameters of the last rendering.
NoWidgets ==
  [sd |-> 0, ed |-> 0, st |-> 0, et |-> 0, sel |-> {},
   dateKey |-> <<-1, -1>>, stKey |-> -1, etKey |-> -1, optKey |-> <<"?">>]

\* the two date_input and the two time_input widgets
RenderRange(w, df) ==
  LET mn == min_datetime(df)
      mx == max_datetime(df)
      dk == <<DateOf(mn), DateOf(mx)>>
  IN [w EXCEPT !.sd = IF w.dateKey = dk THEN @ ELSE dk[1],
               !.ed = IF w.dateKey = dk THEN @ ELSE dk[2],
               !.st = IF w.stKey = TimeOf(mn) THEN @ ELSE TimeOf(mn),
               !.et = IF w.etKey = TimeOf(mx) THEN @ ELSE TimeOf(mx),
               !.dateKey = dk, !.stKey = TimeOf(mn), !.etKey = TimeOf(mx)]

\* the multiselect widget
RenderSelect(w, df) ==
  LET avail == available_columns(df)
  IN [w EXCEPT !.sel = IF w.optKey = avail THEN @ ELSE DefaultSelection(avail),
               !.optKey = avail]

\* ------------------------------------------------------- the session state
\* Each key of st.session_state is absent (<<>>) or present (<<value>>).
NoSession == [plot_ready |-> <<>>, filtered_df |-> <<>>, selected_columns |-> <<>>]

HasPlotReady(sess) == sess.plot_ready # <<>>

\* ------------------------------------------------------- filter, summarize
\* a range check that compares the dates and forgets the times
InvalidRangeDatesOnly(start_dt, end_dt) == DateOf(start_dt) > DateOf(end_dt)

InvalidRange(start_dt, end_dt) == start_dt > end_dt

\* a selection check that tests for None, which an empty list is not
NoSelectionIsNone(sel) == FALSE

NoSelection(sel) == sel = {}

\* a filter whose upper bound is exclusive
FilterRowsEndExclusive(df, start_dt, end_dt) ==
  LET InRange(r) == r.datetime >= start_dt /\ r.datetime < end_dt
  IN [columns |-> df.columns, rows |-> SelectSeq(df.rows, InRange)]

\* df[(df["datetime"] >= start_dt) & (df["datetime"] <= end_dt)]
FilterRows(df, start_dt, end_dt) ==
  LET InRange(r) == r.datetime >= start_dt /\ r.datetime <= end_dt
  IN [columns |-> df.columns, rows |-> SelectSeq(df.rows, InRange)]

\* an emptiness check that tests for None, which an empty frame is not
IsEmptyDfIsNone(df) == FALSE

IsEmptyDf(df) == Len(df.rows) = 0

\* a refresh condition that forgets the button
ShouldFilterIgnoresButton(update_button, sess) == ~HasPlotReady(sess)

ShouldFilter(update_button, sess) == update_button \/ ~HasPlotReady(sess)

\* session writes that forget the selection
StoreResultWithoutSelection(sess, filtered_df, selected_columns) ==
  [sess EXCEPT !.plot_ready = <<TRUE>>,
               !.filtered_df = <<filtered_df>>]

StoreResult(sess, filtered_df, selected_columns) ==
  [sess EXCEPT !.plot_ready = <<TRUE>>,
               !.filtered_df = <<filtered_df>>,
               !.selected_columns = <<selected_columns>>]

\* a filter stage that writes the session before it tests for emptiness
FilterStageStoresFirst(sess, df, start_dt, end_dt, sel) ==
  LET filtered_df == FilterRows(df, start_dt, end_dt)
  IN [halt |-> IsEmptyDf(filtered_df), filtered |-> filtered_df,
      session |-> StoreResult(sess, filtered_df, sel)]

\* lines 119-177: filter, stop when nothing is left, else draw and store
FilterStage(sess, df, start_dt, end_dt, sel) ==
  LET filtered_df == FilterRows(df, start_dt, end_dt)
  IN IF IsEmptyDf(filtered_df)
     THEN [halt |-> TRUE, filtered |-> filtered_df, session |-> sess]
     ELSE [halt |-> FALSE, filtered |-> filtered_df,
           session |-> StoreResult(sess, filtered_df, sel)]

RECURSIVE SeqSum(_)
SeqSum(s) == IF s = <<>> THEN 0 ELSE s[1] + SeqSum(Tail(s))

ColValues(rows, c) == [i \in DOMAIN rows |-> rows[i].vals[c]]

\* min, mean and max of one column; the mean is the exact quotient Sum / Count.
\* Over no rows pandas yields NaN for all three (nan |-> TRUE).
ColMin(v) == IF v = <<>> THEN 0 ELSE SetMin(Range(v))
\* a maximum that takes the last value
ColMaxTakesLast(v) == IF v = <<>> THEN 0 ELSE v[Len(v)]
ColMax(v) == IF v = <<>> THEN 0 ELSE SetMax(Range(v))
ColMean(v) == [Sum |-> SeqSum(v), Count |-> Len(v)]

\* filtered_df[selected_columns].agg(['min', 'mean', 'max']).T
Summarize(filtered_df, selected_columns) ==
  [c \in selected_columns |->
     LET v == ColValues(filtered_df.rows, c)
     IN [Min |-> ColMin(v), Avg |-> ColMean(v), Max |-> ColMax(v), nan |-> v = <<>>]]

\* a summary that reads the current selection instead of the stored one
SummaryInputCurrentSelection(sess, current_selection) ==
  [filtered_df |-> sess.filtered_df, selected_columns |-> <<current_selection>>]

\* lines 181-182: what the summary is computed from
SummaryInput(sess, current_selection) ==
  [filtered_df |-> sess.filtered_df, selected_columns |-> sess.selected_columns]

\* ---------------------------------------------------------- one script run
\* run.reached: 0 the data did not load, 1 the data loaded (line 66),
\* 2 start_dt and end_dt were combined (line 94), 3 the multiselect was read
\* (line 108), 4 the update button was read (line 115).
Idle ==
  [outcome |-> "NotStarted", first |-> FALSE, click |-> FALSE, reached |-> 0,
   start_dt |-> 0, end_dt |-> 0, selection |-> {},
   filterRan |-> FALSE, filtered |-> <<>>, chart |-> FALSE, stored |-> FALSE,
   summaryRan |-> FALSE, summary |-> <<>>, pre |-> NoSession]

\* lines 180-195: the summary table, computed from the session state
SummaryStage(sess, r, current_selection) ==
  IF ~HasPlotReady(sess) THEN [r EXCEPT !.outcome = "Displayed"]
  ELSE LET in == SummaryInput(sess, current_selection)
       IN IF in.filtered_df = <<>> \/ in.selected_columns = <<>>
          THEN [r EXCEPT !.outcome = "SummaryFailed"]
          ELSE IF ~(in.selected_columns[1] \subseteq Range(in.filtered_df[1].columns))
          THEN [r EXCEPT !.outcome = "SummaryFailed"]
          ELSE [r EXCEPT !.outcome = "Displayed", !.summaryRan = TRUE,
                         !.summary = <<Summarize(in.filtered_df[1], in.selected_columns[1])>>]

\* The whole script, lines 46-195.  clicked: the run was caused by a click on
\* the update button; first: it is the first run of the session.
Script(sess, wid, up, dfl, clicked, first) ==
  LET r0 == [Idle EXCEPT !.outcome = "Running", !.first = first, !.pre = sess]
      ld == LoadData(up, dfl)
  IN IF ~ld.ok
     THEN [session |-> sess, widgets |-> wid, run |-> [r0 EXCEPT !.outcome = ld.error]]
     ELSE
     LET df == ld.df
         w1 == RenderRange(wid, df)
         start_dt == combine(w1.sd, w1.st)
         end_dt == combine(w1.ed, w1.et)
         r2 == [r0 EXCEPT !.reached = 2, !.start_dt = start_dt, !.end_dt = end_dt]
     IN IF InvalidRange(start_dt, end_dt)
        THEN [session |-> sess, widgets |-> w1, run |-> [r2 EXCEPT !.outcome = "InvalidRange"]]
        ELSE
        LET w2 == RenderSelect(w1, df)
            selected_columns == w2.sel
            r3 == [r2 EXCEPT !.reached = 3, !.selection = selected_columns]
        IN IF NoSelection(selected_columns)
           THEN [session |-> sess, widgets |-> w2,
                 run |-> [r3 EXCEPT !.outcome = "EmptySelection"]]
           ELSE
           LET update_button == clicked
               r4 == [r3 EXCEPT !.reached = 4, !.click = update_button]
           IN IF ShouldFilter(update_button, sess)
              THEN LET fs == FilterStage(sess, df, start_dt, end_dt, selected_columns)
                       r5 == [r4 EXCEPT !.filterRan = TRUE, !.filtered = <<fs.filtered>>,
                                        !.stored = fs.session # sess]
                   IN IF fs.halt
                      THEN [session |-> fs.session, widgets |-> w2,
                            run |-> [r5 EXCEPT !.outcome = "NoDataInRange"]]
                      ELSE [session |-> fs.session, widgets |-> w2,
                            run |-> SummaryStage(fs.session, [r5 EXCEPT !.chart = TRUE],
                                                 selected_columns)]
              ELSE [session |-> sess, widgets |-> w2,
                    run |-> SummaryStage(sess, r4, selected_columns)]

\* ------------------------------------------------------------------ actions
Started == run.outcome # "NotStarted"

Apply(res) ==
  /\ session' = res.session
  /\ widgets' = res.widgets
  /\ run' = res.run
  /\ lastGood' = IF res.run.filterRan /\ Len(res.run.filtered[1].rows) > 0
                 THEN <<[filtered_df |-> res.run.filtered[1],
                         selected_columns |-> res.run.selection]>>
                 ELSE lastGood
  /\ UNCHANGED dflt

\* the session starts: no file uploaded, every widget at its default
FirstLoad ==
  /\ ~Started
  /\ UNCHANGED uploaded
  /\ Apply(Script(session, widgets, uploaded, dflt, FALSE, TRUE))

\* a rerun that changes no input (the Rerun command, the download button)
Rerun ==
  /\ Started
  /\ UNCHANGED uploaded
  /\ Apply(Script(session, widgets, uploaded, dflt, FALSE, FALSE))

\* a click on the update button, which the page shows only if the latest run drew it
ClickUpdate ==
  /\ Started /\ run.reached >= 4
  /\ UNCHANGED uploaded
  /\ Apply(Script(session, widgets, uploaded, dflt, TRUE, FALSE))

Upload(csv) ==
  /\ Started /\ uploaded # <<csv>>
  /\ uploaded' = <<csv>>
  /\ Apply(Script(session, widgets, <<csv>>, dflt, FALSE, FALSE))

RemoveFile ==
  /\ Started /\ uploaded # <<>>
  /\ uploaded' = <<>>
  /\ Apply(Script(session, widgets, <<>>, dflt, FALSE, FALSE))

\* the date inputs offer the dates from min_value to max_value
SetStartDate(d) ==
  /\ Started /\ run.reached >= 2
  /\ d \in widgets.dateKey[1] .. widgets.dateKey[2] /\ d # widgets.sd
  /\ UNCHANGED uploaded
  /\ Apply(Script(session, [widgets EXCEPT !.sd = d], uploaded, dflt, FALSE, FALSE))

SetEndDate(d) ==
  /\ Started /\ run.reached >= 2
  /\ d \in widgets.dateKey[1] .. widgets.dateKey[2] /\ d # widgets.ed
  /\ UNCHANGED uploaded
  /\ Apply(Script(session, [widgets EXCEPT !.ed = d], uploaded, dflt, FALSE, FALSE))

SetStartTime(t) ==
  /\ Started /\ run.reached >= 2
  /\ t \in 0 .. NumTimes - 1 /\ t # widgets.st
  /\ UNCHANGED uploaded
  /\ Apply(Script(session, [widgets EXCEPT !.st = t], uploaded, dflt, FALSE, FALSE))

SetEndTime(t) ==
  /\ Started /\ run.reached >= 2
  /\ t \in 0 .. NumTimes - 1 /\ t # widgets.et
  /\ UNCHANGED uploaded
  /\ Apply(Script(session, [widgets EXCEPT !.et = t], uploaded, dflt, FALSE, FALSE))

\* the multiselect offers the available columns
SetSelection(S) ==
  /\ Started /\ run.reached >= 3
  /\ S \in SUBSET Range(widgets.optKey) /\ S # widgets.sel
  /\ UNCHANGED uploaded
  /\ Apply(Script(session, [widgets EXCEPT !.sel = S], uploaded, dflt, FALSE, FALSE))

Init ==
  /\ dflt \in DefaultFiles
  /\ uploaded = <<>>
  /\ widgets = NoWidgets
  /\ session = NoSession
  /\ run = Idle
  /\ lastGood = <<>>

Next ==
  \/ FirstLoad
  \/ Rerun
  \/ ClickUpdate
  \/ \E csv \in UploadFiles : Upload(csv)
  \/ RemoveFile
  \/ \E d \in 0 .. MaxTs : SetStartDate(d)
  \/ \E d \in 0 .. MaxTs : SetEndDate(d)
  \/ \E t \in 0 .. NumTimes - 1 : SetStartTime(t)
  \/ \E t \in 0 .. NumTimes - 1 : SetEndTime(t)
  \/ \E S \in SUBSET {"A", "B", "C", "D"} : SetSelection(S)

Spec == Init /\ [][Next]_vars

\* --------------------------------------------- the script on drawn inputs
\* Every table of at most MaxRows rows with one field A, timestamps in
\* 0..MaxTs and values in -1..MaxVal, with every setting of the widgets the
\* page offers for it; the one step is the script run on these inputs.
DrawnRows(n) ==
  {[i \in 1 .. n |-> R(i - 1, f[i][1], [A |-> f[i][2]])] :
     f \in [1 .. n -> (0 .. MaxTs) \X (-1 .. MaxVal)]}

DrawnCsvs ==
  {[readable |-> TRUE, parses |-> TRUE, cols |-> <<"datetime", "A">>, rows |-> rs] :
     rs \in UNION {DrawnRows(n) : n \in 1 .. MaxRows}}

DrawnWidgets(csv) ==
  LET df == WithDatetime(csv)
      w0 == RenderSelect(RenderRange(NoWidgets, df), df)
  IN {[w0 EXCEPT !.sd = a, !.ed = b, !.st = c, !.et = d, !.sel = S] :
        a \in w0.dateKey[1] .. w0.dateKey[2], b \in w0.dateKey[1] .. w0.dateKey[2],
        c \in 0 .. NumTimes - 1, d \in 0 .. NumTimes - 1,
        S \in SUBSET Range(w0.optKey)}

InitDrawn ==
  /\ dflt = CsvMain
  /\ \E csv \in DrawnCsvs : uploaded = <<csv>> /\ widgets \in DrawnWidgets(csv)
  /\ session = NoSession
  /\ run = Idle
  /\ lastGood = <<>>

SpecDrawn == InitDrawn /\ [][FirstLoad]_vars

\* ------------------------------------------------------------------ claims
\* the table the latest run worked on
CurrentDf == LoadData(uploaded, dflt).df

\* fd holds exactly the rows of df with s <= datetime <= e, each once, in df's order
KeptExactly(df, fd, s, e) ==
  /\ \A i \in DOMAIN fd.rows :
       fd.rows[i] \in Range(df.rows) /\ s <= fd.rows[i].datetime /\ fd.rows[i].datetime <= e
  /\ \A j \in DOMAIN df.rows :
       (s <= df.rows[j].datetime /\ df.rows[j].datetime <= e) => df.rows[j] \in Range(fd.rows)
  /\ \A i, k \in DOMAIN fd.rows : i < k => fd.rows[i].idx < fd.rows[k].idx

Held(fd, sel) ==
  [plot_ready |-> <<TRUE>>, filtered_df |-> <<fd>>, selected_columns |-> <<sel>>]

\* C1: whenever the filter step runs (so start <= end), it keeps exactly the
\* rows with start <= timestamp <= end, both bounds included, each once and in
\* the order of the input table.
C1_FilterInclusiveStable ==
  run.filterRan =>
    /\ run.start_dt <= run.end_dt
    /\ KeptExactly(CurrentDf, run.filtered[1], run.start_dt, run.end_dt)

\* C1 witness: an unsorted table of which a row at the end bound and, after
\* it, a row at the start bound are both kept, in that order.
C1_Witness ==
  /\ run.filterRan /\ run.start_dt < run.end_dt
  /\ Len(run.filtered[1].rows) = 2
  /\ run.filtered[1].rows[1].datetime = run.end_dt
  /\ run.filtered[1].rows[2].datetime = run.start_dt

\* C2: a run whose combined start is later than its combined end ends in the
\* invalid-range error and runs neither the filter nor the summary.
C2_InvalidRangeHalts ==
  (run.reached >= 2 /\ run.start_dt > run.end_dt) =>
    /\ run.outcome = "InvalidRange"
    /\ ~run.filterRan /\ ~run.chart /\ ~run.summaryRan

\* C2 witness: an invalid range met while a previous result is stored, the
\* two dates being equal.
C2_Witness ==
  /\ run.outcome = "InvalidRange" /\ HasPlotReady(run.pre)
  /\ DateOf(run.start_dt) = DateOf(run.end_dt)

HaltOutcomes ==
  {"DefaultLoadFailed", "MalformedSource", "InvalidRange", "EmptySelection", "NoDataInRange"}

\* C3: a run that halts with an error leaves plot_ready, filtered_df and
\* selected_columns exactly as they were before the run.
C3_HaltKeepsSession ==
  run.outcome \in HaltOutcomes => session = run.pre

\* C3 witness: a run halted by the no-data warning while a result is stored.
C3_Witness ==
  /\ run.outcome = "NoDataInRange" /\ HasPlotReady(run.pre) /\ session = run.pre

\* C4: a filter that keeps no row halts the run with the no-data warning
\* before drawing, storing or summarizing; the summary is never computed over
\* no rows and the stored filtered table always has a row.
C4_NeverSummarizeEmpty ==
  /\ (run.filterRan /\ Len(run.filtered[1].rows) = 0) =>
       /\ run.outcome = "NoDataInRange"
       /\ ~run.chart /\ ~run.stored /\ ~run.summaryRan
  /\ session.filtered_df # <<>> => Len(session.filtered_df[1].rows) >= 1
  /\ run.summaryRan => \A c \in DOMAIN run.summary[1] :
       ~run.summary[1][c].nan /\ run.summary[1][c].Avg.Count >= 1

\* C4 witness: a click on the update button whose filter keeps no row.
C4_Witness ==
  /\ run.click /\ run.filterRan /\ Len(run.filtered[1].rows) = 0

\* C5: a run with a valid range and an empty selection halts with the
\* empty-selection warning: no filter, no chart, no summary, no session write.
C5_EmptySelectionHalts ==
  (run.reached >= 3 /\ run.selection = {}) =>
    /\ run.outcome = "EmptySelection"
    /\ ~run.filterRan /\ ~run.chart /\ ~run.summaryRan /\ ~run.stored
    /\ session = run.pre

\* C5 witness: an empty selection met while a previous result is stored.
C5_Witness ==
  /\ run.outcome = "EmptySelection" /\ HasPlotReady(run.pre)

\* C6 as stated: after every click on the update button the held result is
\* the one recomputed from the current table, range and selection.
C6_EveryTriggerReplaces ==
  run.click =>
    /\ session.filtered_df # <<>>
    /\ KeptExactly(CurrentDf, session.filtered_df[1], run.start_dt, run.end_dt)
    /\ session.selected_columns = <<run.selection>>

\* C6 amended: every click on the update button runs the filter on the
\* current table, range and selection; if a row is kept, the new subset and
\* selection replace the held result and the summary shown is computed from
\* them; if none is kept, the run halts with the no-data warning, shows no
\* summary and the result held before stays held.
C6_TriggerReplacesOnSuccess ==
  run.click =>
    /\ run.filterRan
    /\ KeptExactly(CurrentDf, run.filtered[1], run.start_dt, run.end_dt)
    /\ Len(run.filtered[1].rows) > 0 =>
         /\ run.outcome = "Displayed"
         /\ session = Held(run.filtered[1], run.selection)
         /\ run.summary = <<Summarize(run.filtered[1], run.selection)>>
    /\ Len(run.filtered[1].rows) = 0 =>
         /\ run.outcome = "NoDataInRange"
         /\ ~run.summaryRan
         /\ session = run.pre

\* C6 witness: a click that replaces a stored result by a different one.
C6_Witness ==
  /\ run.click /\ run.outcome = "Displayed"
  /\ HasPlotReady(run.pre) /\ session # run.pre

\* C7: each summary row satisfies min <= mean <= max, the mean being the sum
\* of the field's values over all filtered rows divided by their number, and
\* min and max being the least and greatest of those values.
C7_MinMeanMax ==
  run.summaryRan =>
    \A c \in DOMAIN run.summary[1] :
      LET st == run.summary[1][c]
          rows == session.filtered_df[1].rows
      IN /\ st.Avg.Count = Len(rows) /\ st.Avg.Count >= 1
         /\ st.Min * st.Avg.Count <= st.Avg.Sum
         /\ st.Avg.Sum <= st.Max * st.Avg.Count
         /\ \A i \in DOMAIN rows : st.Min <= rows[i].vals[c] /\ rows[i].vals[c] <= st.Max
         /\ \E i \in DOMAIN rows : st.Min = rows[i].vals[c]
         /\ \E i \in DOMAIN rows : st.Max = rows[i].vals[c]

\* C7 witness: a summary whose mean lies strictly between min and max, the
\* last value of the field not being its greatest.
C7_Witness ==
  /\ run.summaryRan
  /\ \E c \in DOMAIN run.summary[1] :
       LET st == run.summary[1][c]
           rows == session.filtered_df[1].rows
       IN /\ st.Min * st.Avg.Count < st.Avg.Sum
          /\ st.Avg.Sum < st.Max * st.Avg.Count
          /\ st.Min < 0
          /\ rows[Len(rows)].vals[c] < st.Max

\* C8: the summary shown is computed from the filtered table and selection of
\* the latest run whose filter kept a row; that result is what the session
\* holds until a later such run overwrites it; a run that does not filter
\* leaves the stored result as it was.
C8_OnlyLastResultCarried ==
  /\ session = IF lastGood = <<>> THEN NoSession
               ELSE Held(lastGood[1].filtered_df, lastGood[1].selected_columns)
  /\ run.summaryRan =>
       /\ lastGood # <<>>
       /\ run.summary = <<Summarize(lastGood[1].filtered_df, lastGood[1].selected_columns)>>
  /\ (Started /\ ~run.filterRan) => session = run.pre

\* C8 witness: a run that does not filter shows the stored summary although
\* the current selection and the current table differ from the stored ones.
C8_Witness ==
  /\ run.summaryRan /\ ~run.filterRan
  /\ run.selection # session.selected_columns[1]
  /\ ~KeptExactly(CurrentDf, session.filtered_df[1], run.start_dt, run.end_dt)

\* C9: a run that reaches the refresh condition executes the filter step if
\* and only if the update button was clicked or the run is the first of the
\* session.
C9_FilterIffClickOrFirstLoad ==
  run.reached >= 4 => (run.filterRan <=> (run.click \/ run.first))

\* C10: the three session values are present together or absent together,
\* once present they stay, the stored selection is non-empty and each of its
\* fields is a column of the stored table with a value in every row, and the
\* summary step never fails.
C10_SessionConsistent ==
  /\ HasPlotReady(session) <=> session.filtered_df # <<>>
  /\ HasPlotReady(session) <=> session.selected_columns # <<>>
  /\ HasPlotReady(run.pre) => HasPlotReady(session)
  /\ HasPlotReady(session) =>
       /\ session.selected_columns[1] # {}
       /\ session.selected_columns[1] \subseteq Range(session.filtered_df[1].columns)
       /\ \A i \in DOMAIN session.filtered_df[1].rows :
            session.selected_columns[1] \subseteq DOMAIN session.filtered_df[1].rows[i].vals
  /\ run.outcome # "SummaryFailed"

\* C10 witness: the summary is shown from the stored result after a table
\* with another schema was uploaded, which lacks a stored field.
C10_Witness ==
  /\ run.summaryRan /\ uploaded # <<>>
  /\ ~(session.selected_columns[1] \subseteq Range(CurrentDf.columns))

====
